---- MODULE Spec2Model ----
(***************************************************************************)
(* The two notebooks of the repository as state machines.                  *)
(*                                                                         *)
(*   classification.ipynb : read csv -> turn labels into a list -> remove   *)
(*     texts with no label -> dataframe -> extract -> binarize -> split ->  *)
(*     label names -> pipeline fit -> predict/score -> mean agreement       *)
(*   regression notebook  : load_boston -> train_test_split                 *)
(*                                                                         *)
(* A Python str is a sequence of one-character strings, a list is a         *)
(* sequence, None is the empty tuple and a present optional value x is the  *)
(* one-element tuple <<x>>.  Positions are 1-based where Python's are       *)
(* 0-based.  A float that is a ratio of small integers is the pair          *)
(* <<numerator, denominator>>.                                              *)
(***************************************************************************)
EXTENDS Integers, Sequences, FiniteSets, TLC

VARIABLES
    wf,             \* which notebook runs: "classification" or "regression"
    run,            \* "first" or "second" execution of the notebook on the same input
    pc,             \* the cell that executes next
    csvfile,        \* rows of data/upr.csv, as csv.DictReader yields them
    recs,           \* list of row dicts
    i,              \* loop position of "for i in recs"
    rec_sub,        \* recs with a truthy Issue
    data,           \* DataFrame(rec_sub)
    text,           \* data['Text'].values
    labels,         \* data['Issue'].values
    mlb,            \* MultiLabelBinarizer: [classes_ |-> ...] once fitted, None before
    labels_binary,  \* mlb.fit_transform(labels)
    boston,         \* load_boston(): [data |-> ..., target |-> ...]
    mt,             \* what RandomState(seed).permutation(n) yields, None until first drawn
    train,          \* index array "train" inside train_test_split
    test,           \* index array "test" inside train_test_split
    X_train, X_test, y_train, y_test,
    prev,           \* the split the first execution produced, None during the first
    label_names,    \* list(mlb.classes_)
    clf,            \* text_clf.fit(X_train, y_train): None, or the fitted pipeline
    predicted,      \* clf.predict(X_test)
    score,          \* clf.score(X_test, y_test)
    agreement,      \* np.mean(predicted == y_test)
    calls,          \* the stage methods text_clf has run, in order
    fits,           \* every fit of the notebook: who fitted, and the X it was given
    grid_scores_,   \* gs_clf.grid_scores_: per combination its parameters and mean score
    best_parameters \* the maximum of grid_scores_ by score

vars == <<wf, run, pc, csvfile, recs, i, rec_sub, data, text, labels, mlb,
          labels_binary, boston, mt, train, test, X_train, X_test, y_train,
          y_test, prev, label_names, clf, predicted, score, agreement,
          calls, fits, grid_scores_, best_parameters>>

None == <<>>
Some(x) == <<x>>

----------------------------------------------------------------------------
(* Bounds of the model *)

\* rows of the csv file
MaxRecs == 3
\* observations of the boston dataset
MaxSamples == 4
\* rows and columns of the label matrices drawn for the scoring cells
MaxRows == 2
MaxWidth == 2
\* rows of the csv files, and observations of the datasets, with which the
\* cells after the first fit run
MaxDocs == 5
MaxBoston == 7
\* the mean scores of a grid search are the ratios k / MaxScore
MaxScore == 1

----------------------------------------------------------------------------
(* Python str *)

\* ord(c) of the characters that occur
Ord(c) ==
    CASE c = " " -> 32 [] c = "," -> 44 [] c = "A" -> 65 [] c = "B" -> 66
      [] c = "G" -> 71 [] c = "O" -> 79 [] c = "a" -> 97 [] c = "e" -> 101
      [] c = "h" -> 104 [] c = "l" -> 108 [] c = "n" -> 110 [] c = "r" -> 114
      [] c = "t" -> 116

\* s < t for two str: lexicographic by code point
RECURSIVE StrLess(_, _)
StrLess(s, t) ==
    IF t = <<>> THEN FALSE
    ELSE IF s = <<>> THEN TRUE
    ELSE IF Head(s) = Head(t) THEN StrLess(Tail(s), Tail(t))
    ELSE Ord(Head(s)) < Ord(Head(t))

\* s.split(','): the pieces between the commas; ''.split(',') is ['']
RECURSIVE split(_)
split(s) ==
    IF s = <<>> THEN << <<>> >>
    ELSE LET rest == split(Tail(s))
         IN  IF Head(s) = "," THEN << <<>> >> \o rest
             ELSE << <<Head(s)>> \o Head(rest) >> \o Tail(rest)

Other == <<"O", "t", "h", "e", "r">>
General == <<"G", "e", "n", "e", "r", "a", "l">>

----------------------------------------------------------------------------
(* The input file *)

\* Issue fields of a row: empty, only reserved tokens, two labels listed out
\* of alphabetical order, a label next to a reserved token
Fields ==
    { <<>>,
      Other \o <<",">> \o General,
      <<"B", ",", "A">>,
      <<"A", ",">> \o Other }

\* the k-th row carries the text "t" * k
TextOf(k) == [j \in 1..k |-> "t"]

\* the header lines: both columns, one of the two required columns missing, or
\* a first line that names neither
Headers == { {"Text", "Issue"}, {"Text"}, {"Issue"}, {} }

\* every file of at most MaxRecs rows under one of the headers; a row is the
\* dict csv.DictReader yields, keyed by the header.  The file of no row is
\* also the file without a header line: the reader yields nothing for it.
CsvFiles ==
    { [k \in 1..Len(f) |->
          [key \in header |-> IF key = "Text" THEN TextOf(k) ELSE f[k]]] :
        f \in UNION { [1..n -> Fields] : n \in 0..MaxRecs }, header \in Headers }

----------------------------------------------------------------------------
(* classification.ipynb: 1) Load and PreProcess *)

\* a row dict; id stands for the identity of the dict object, which recs and
\* rec_sub share
RowDict(k, row) ==
    [key \in DOMAIN row \cup {"id"} |->
        IF key = "id" THEN k
        ELSE IF key = "Issue" THEN [str |-> row.Issue] ELSE row[key]]

\* d[key] = v
SetKey(d, key, v) ==
    [k \in DOMAIN d \cup {key} |-> IF k = key THEN v ELSE d[k]]

\* i['Issue']: the field, or KeyError (None) when the file has no such column
GetIssueOrEmpty(rec) ==
    IF "Issue" \in DOMAIN rec THEN Some(rec.Issue.str) ELSE Some(<<>>)
GetIssue(rec) ==
    IF "Issue" \in DOMAIN rec THEN Some(rec.Issue.str) ELSE None

\* x != 'Other' and x != 'General'
KeepEither(x) == x # Other \/ x # General
Keep(x) == x # Other /\ x # General

\* [x for x in issues if x != 'Other' and x != 'General']
RECURSIVE FilterIssues(_)
FilterIssues(issues) ==
    IF issues = <<>> THEN <<>>
    ELSE (IF Keep(Head(issues)) THEN <<Head(issues)>> ELSE <<>>)
         \o FilterIssues(Tail(issues))

\* truth value of i['Issue'] once it is a list: a list is true unless empty
TruthyAlways(issue) == TRUE
Truthy(issue) == issue.list # <<>>

\* [i for i in recs if i['Issue']]
RECURSIVE RemoveNoLabel(_)
RemoveNoLabel(rs) ==
    IF rs = <<>> THEN <<>>
    ELSE (IF Truthy(Head(rs).Issue) THEN <<Head(rs)>> ELSE <<>>)
         \o RemoveNoLabel(Tail(rs))

\* for row in reader: recs.append(row)
ReadRow ==
    /\ wf = "classification"
    /\ pc = "read"
    /\ Len(recs) < Len(csvfile)
    /\ recs' = Append(recs, RowDict(Len(recs) + 1, csvfile[Len(recs) + 1]))
    /\ UNCHANGED <<wf, run, pc, csvfile, i, rec_sub, data, text, labels, mlb,
                   labels_binary, boston, mt, train, test, X_train, X_test,
                   y_train, y_test, prev, label_names, clf, predicted, score,
                   agreement,
                   calls, fits, grid_scores_, best_parameters>>

\* the reader is exhausted: print(len(recs)), and the next cell starts its loop
EndRead ==
    /\ wf = "classification"
    /\ pc = "read"
    /\ Len(recs) = Len(csvfile)
    /\ pc' = "parse"
    /\ i' = 1
    /\ UNCHANGED <<wf, run, csvfile, recs, rec_sub, data, text, labels, mlb,
                   labels_binary, boston, mt, train, test, X_train, X_test,
                   y_train, y_test, prev, label_names, clf, predicted, score,
                   agreement,
                   calls, fits, grid_scores_, best_parameters>>

\* the body of the loop for one dict: only the key Issue is assigned
ParseRecordBothKeys(rec, field) ==
    LET kept == FilterIssues(split(field))
    IN  SetKey(SetKey(rec, "Issue", [list |-> kept]), "Text", kept)
ParseRecord(rec, field) ==
    SetKey(rec, "Issue", [list |-> FilterIssues(split(field))])

\* one turn of "for i in recs": the dict is changed in place
TurnLabelsIntoList ==
    /\ wf = "classification"
    /\ pc = "parse"
    /\ i <= Len(recs)
    /\ LET field == GetIssue(recs[i])
       IN  IF field = None
           THEN /\ pc' = "error"
                /\ UNCHANGED <<recs, i>>
           ELSE /\ recs' = [recs EXCEPT ![i] = ParseRecord(@, field[1])]
                /\ i' = i + 1
                /\ pc' = pc
    /\ UNCHANGED <<wf, run, csvfile, rec_sub, data, text, labels, mlb,
                   labels_binary, boston, mt, train, test, X_train, X_test,
                   y_train, y_test, prev, label_names, clf, predicted, score,
                   agreement, calls, fits, grid_scores_, best_parameters>>

EndTurnLabelsIntoList ==
    /\ wf = "classification"
    /\ pc = "parse"
    /\ i > Len(recs)
    /\ pc' = "filter"
    /\ UNCHANGED <<wf, run, csvfile, recs, i, rec_sub, data, text, labels, mlb,
                   labels_binary, boston, mt, train, test, X_train, X_test,
                   y_train, y_test, prev, label_names, clf, predicted, score,
                   agreement,
                   calls, fits, grid_scores_, best_parameters>>

\* cell "remove texts with no label"
RemoveTextsWithNoLabel ==
    /\ wf = "classification"
    /\ pc = "filter"
    /\ rec_sub' = RemoveNoLabel(recs)
    /\ pc' = "frame"
    /\ UNCHANGED <<wf, run, csvfile, recs, i, data, text, labels, mlb,
                   labels_binary, boston, mt, train, test, X_train, X_test,
                   y_train, y_test, prev, label_names, clf, predicted, score,
                   agreement,
                   calls, fits, grid_scores_, best_parameters>>

\* one frame row of a dict: its keys are the columns
FrameRow(rec) ==
    [key \in DOMAIN rec \ {"id"} |->
        IF key = "Issue" THEN rec.Issue.list ELSE rec[key]]

\* data[name] is there: the frame has the column
HasColumn(frame, name) == frame # <<>> /\ name \in DOMAIN frame[1]

\* cell "turn into a dataframe": one frame row per dict, columns are the keys
TurnIntoDataFrame ==
    /\ wf = "classification"
    /\ pc = "frame"
    /\ data' = Some([k \in 1..Len(rec_sub) |-> FrameRow(rec_sub[k])])
    /\ pc' = "extract"
    /\ UNCHANGED <<wf, run, csvfile, recs, i, rec_sub, text, labels, mlb,
                   labels_binary, boston, mt, train, test, X_train, X_test,
                   y_train, y_test, prev, label_names, clf, predicted, score,
                   agreement,
                   calls, fits, grid_scores_, best_parameters>>

\* cell "extract text and label data"; a frame built from no dict has no
\* column, and data['Text'] raises KeyError, as it does without a Text column
ExtractTextAndLabels ==
    /\ wf = "classification"
    /\ pc = "extract"
    /\ IF ~ (HasColumn(data[1], "Text") /\ HasColumn(data[1], "Issue"))
       THEN /\ pc' = "error"
            /\ UNCHANGED <<text, labels>>
       ELSE /\ text' = [k \in 1..Len(data[1]) |-> data[1][k].Text]
            /\ labels' = [k \in 1..Len(data[1]) |-> data[1][k].Issue]
            /\ pc' = "binarize"
    /\ UNCHANGED <<wf, run, csvfile, recs, i, rec_sub, data, mlb,
                   labels_binary, boston, mt, train, test, X_train, X_test,
                   y_train, y_test, prev, label_names, clf, predicted, score,
                   agreement,
                   calls, fits, grid_scores_, best_parameters>>

----------------------------------------------------------------------------
(* MultiLabelBinarizer.fit_transform, as the "binarize labels" cell calls it *)

Range(f) == { f[k] : k \in DOMAIN f }

\* position of x in seq
IndexIn(seq, x) == CHOOSE k \in 1..Len(seq) : seq[k] = x

\* itertools.chain.from_iterable(y)
RECURSIVE Chain(_)
Chain(y) == IF y = <<>> THEN <<>> ELSE Head(y) \o Chain(Tail(y))

\* the keys of class_mapping in the order of their numbers: a label gets the
\* next number the first time it is looked up
RECURSIVE ClassMapping(_, _)
ClassMapping(flat, seen) ==
    IF flat = <<>> THEN seen
    ELSE ClassMapping(Tail(flat),
                      IF Head(flat) \in Range(seen) THEN seen
                      ELSE Append(seen, Head(flat)))

\* _transform: per sample the set of the numbers of its labels
TransformFirstLabelOnly(y, tmp) ==
    [r \in 1..Len(y) |-> { IndexIn(tmp, y[r][1]) }]
Transform(y, tmp) ==
    [r \in 1..Len(y) |-> { IndexIn(tmp, y[r][k]) : k \in 1..Len(y[r]) }]

\* sorted(S) for a set of str
RECURSIVE Sorted(_)
Sorted(S) ==
    IF S = {} THEN <<>>
    ELSE LET m == CHOOSE x \in S : \A z \in S \ {x} : StrLess(x, z)
         IN  <<m>> \o Sorted(S \ {m})

\* np.unique(class_mapping, return_inverse=True)
UniqueUnsorted(tmp) ==
    [classes |-> tmp, inverse |-> [k \in 1..Len(tmp) |-> k]]
Unique(tmp) ==
    LET classes == Sorted(Range(tmp))
    IN  [classes |-> classes,
         inverse |-> [k \in 1..Len(tmp) |-> IndexIn(classes, tmp[k])]]

\* yt.indices = inverse[yt.indices]
ReorderColumnsSkipped(inverse, indices) == indices
ReorderColumns(inverse, indices) == { inverse[k] : k \in indices }

\* yt.toarray(): one dense row
ToArray(indices, width) == [c \in 1..width |-> IF c \in indices THEN 1 ELSE 0]

fit_transform(y) ==
    LET tmp == ClassMapping(Chain(y), <<>>)
        yt  == Transform(y, tmp)
        u   == Unique(tmp)
    IN  [classes_ |-> u.classes,
         yt |-> [r \in 1..Len(y) |->
                   ToArray(ReorderColumns(u.inverse, yt[r]), Len(u.classes))]]

\* cell "binarize labels"
BinarizeLabels ==
    /\ wf = "classification"
    /\ pc = "binarize"
    /\ LET b == fit_transform(labels)
       IN  /\ mlb' = Some([classes_ |-> b.classes_])
           /\ labels_binary' = b.yt
    /\ pc' = "split"
    /\ UNCHANGED <<wf, run, csvfile, recs, i, rec_sub, data, text, labels,
                   boston, mt, train, test, X_train, X_test, y_train, y_test,
                   prev, label_names, clf, predicted, score, agreement,
                   calls, fits, grid_scores_, best_parameters>>

----------------------------------------------------------------------------
(* cross_validation.train_test_split *)

\* test_size=0.2, random_state=40.  For every n below 100000 the float
\* product 0.2 * n has the ceiling of the exact n / 5.
ClassificationSplitUnseeded ==
    [test_size |-> <<1, 5>>, train_size |-> None, random_state |-> None]
ClassificationSplit ==
    [test_size |-> <<1, 5>>, train_size |-> None, random_state |-> Some(40)]

\* train_size=0.75, test_size=0.25, no random_state
RegressionSplit ==
    [test_size |-> <<1, 4>>, train_size |-> <<3, 4>>, random_state |-> None]

\* ceil(fraction * n) and floor(fraction * n)
Ceil(fraction, n) == (fraction[1] * n + fraction[2] - 1) \div fraction[2]
Floor(fraction, n) == (fraction[1] * n) \div fraction[2]

\* _validate_shuffle_split: the sizes of the two subsets
ValidateShuffleSplitSwapped(n, test_size, train_size) ==
    LET n_test == n - Ceil(test_size, n)
    IN  [n_train |-> n - n_test, n_test |-> n_test]
ValidateShuffleSplit(n, test_size, train_size) ==
    LET n_test == Ceil(test_size, n)
    IN  [n_train |-> IF train_size = None THEN n - n_test
                     ELSE Floor(train_size, n),
         n_test |-> n_test]

\* ShuffleSplit._iter_indices: ind_test = permutation[:n_test],
\* ind_train = permutation[n_test:n_test + n_train]
IterIndicesOverlap(permutation, sizes) ==
    [train |-> SubSeq(permutation, sizes.n_test,
                      sizes.n_test + sizes.n_train - 1),
     test |-> SubSeq(permutation, 1, sizes.n_test)]
IterIndices(permutation, sizes) ==
    [train |-> SubSeq(permutation, sizes.n_test + 1,
                      sizes.n_test + sizes.n_train),
     test |-> SubSeq(permutation, 1, sizes.n_test)]

\* safe_indexing(a, idx)
SafeIndexing(a, idx) == [k \in 1..Len(idx) |-> a[idx[k]]]

\* rng.permutation(n) of check_random_state(random_state): with a seed the
\* generator is a fixed function of the seed, whatever it is; without one it
\* is numpy's global generator, seeded from the operating system
CanDraw(random_state, permutation) ==
    \/ random_state = None
    \/ mt = None
    \/ mt = Some(permutation)

train_test_splitUnpaired(X, y, args, permutation) ==
    LET sizes == ValidateShuffleSplit(Len(X), args.test_size, args.train_size)
        ind   == IterIndices(permutation, sizes)
        last_first(idx) == [k \in 1..Len(idx) |-> idx[Len(idx) + 1 - k]]
    IN  [train |-> ind.train, test |-> ind.test,
         X_train |-> SafeIndexing(X, ind.train),
         X_test |-> SafeIndexing(X, ind.test),
         y_train |-> SafeIndexing(y, last_first(ind.train)),
         y_test |-> SafeIndexing(y, last_first(ind.test))]
train_test_split(X, y, args, permutation) ==
    LET sizes == ValidateShuffleSplit(Len(X), args.test_size, args.train_size)
        ind   == IterIndices(permutation, sizes)
    IN  [train |-> ind.train, test |-> ind.test,
         X_train |-> SafeIndexing(X, ind.train),
         X_test |-> SafeIndexing(X, ind.test),
         y_train |-> SafeIndexing(y, ind.train),
         y_test |-> SafeIndexing(y, ind.test)]

SplitInto(X, y, args) ==
    \E permutation \in Permutations(1..Len(X)) :
        /\ CanDraw(args.random_state, permutation)
        /\ mt' = IF args.random_state = None THEN mt ELSE Some(permutation)
        /\ LET s == train_test_split(X, y, args, permutation)
           IN  /\ train' = s.train
               /\ test' = s.test
               /\ X_train' = s.X_train
               /\ X_test' = s.X_test
               /\ y_train' = s.y_train
               /\ y_test' = s.y_test

\* cell "get training + test data"
GetTrainingAndTestData ==
    /\ wf = "classification"
    /\ pc = "split"
    /\ SplitInto(text, labels_binary, ClassificationSplit)
    /\ pc' = "names"
    /\ UNCHANGED <<wf, run, csvfile, recs, i, rec_sub, data, text, labels, mlb,
                   labels_binary, boston, prev, label_names, clf, predicted,
                   score, agreement,
                   calls, fits, grid_scores_, best_parameters>>

\* cell "get target (label) names"
GetLabelNames ==
    /\ wf = "classification"
    /\ pc = "names"
    /\ label_names' = mlb[1].classes_
    /\ pc' = "fit"
    /\ UNCHANGED <<wf, run, csvfile, recs, i, rec_sub, data, text, labels, mlb,
                   labels_binary, boston, mt, train, test, X_train, X_test,
                   y_train, y_test, prev, clf, predicted, score, agreement,
                   calls, fits, grid_scores_, best_parameters>>

----------------------------------------------------------------------------
(* classification.ipynb: 2) Pipelines, 3) Predicting *)

\* every 0/1 matrix of the given shape
Indicators(rows, width) == [1..rows -> [1..width -> {0, 1}]]

\* the arrays the split cell of the running notebook is given
SplitX == IF wf = "classification" THEN text ELSE boston[1].data
SplitY == IF wf = "classification" THEN labels_binary ELSE boston[1].target

\* the (X_train, y_train) the fits are called with
AllData == <<SplitX, SplitY>>
TrainingData == <<X_train, y_train>>

\* one entry of the record of fits
Fitted(by, X) == [by |-> by, X |-> X]

\* the names of the steps of text_clf, in the order of the list
text_clfMisordered == <<"tfidf", "vect", "clf">>
text_clf == <<"vect", "tfidf", "clf">>

\* Pipeline.fit, Pipeline.predict, Pipeline.score: every step but the last
\* transforms, the last one does what was asked
PipelineRun(steps, first, last) ==
    [k \in 1..Len(steps) |->
        [stage |-> steps[k], method |-> IF k < Len(steps) THEN first ELSE last]]
PipelineFit(steps) == PipelineRun(steps, "fit_transform", "fit")
PipelinePredict(steps) == PipelineRun(steps, "transform", "predict")
PipelineScore(steps) == PipelineRun(steps, "transform", "score")

\* cell "fit using pipeline"; CountVectorizer, the first step, raises
\* ValueError on no document
FitUsingPipeline ==
    /\ wf = "classification"
    /\ pc = "fit"
    /\ fits' = Append(fits, Fitted("text_clf", TrainingData[1]))
    /\ IF TrainingData[1] = <<>>
       THEN /\ pc' = "error"
            /\ calls' = calls \o SubSeq(PipelineFit(text_clf), 1, 1)
            /\ UNCHANGED clf
       ELSE /\ clf' = Some([X |-> TrainingData[1], y |-> TrainingData[2]])
            /\ calls' = calls \o PipelineFit(text_clf)
            /\ pc' = "predict"
    /\ UNCHANGED <<wf, run, csvfile, recs, i, rec_sub, data, text, labels, mlb,
                   labels_binary, boston, mt, train, test, X_train, X_test,
                   y_train, y_test, prev, label_names, predicted, score,
                   agreement, grid_scores_, best_parameters>>

\* metrics.accuracy_score on label indicators: the share of the samples with
\* no differing label
ZeroOneLoss(y_true, y_pred) ==
    LET differing_labels(r) ==
            Cardinality({ c \in 1..Len(y_true[r]) : y_true[r][c] # y_pred[r][c] })
    IN  << Cardinality({ r \in 1..Len(y_true) : differing_labels(r) # 0 }),
           Len(y_true) >>
AccuracyScore(y_true, y_pred) ==
    LET differing_labels(r) ==
            Cardinality({ c \in 1..Len(y_true[r]) : y_true[r][c] # y_pred[r][c] })
    IN  << Cardinality({ r \in 1..Len(y_true) : differing_labels(r) = 0 }),
           Len(y_true) >>

\* np.mean(a == b) of two matrices of one shape: the share of equal elements
MeanEqualPerRow(a, b) ==
    << Cardinality({ rc \in (1..Len(a)) \X (1..Len(a[1])) :
                       a[rc[1]][rc[2]] = b[rc[1]][rc[2]] }),
       Len(a) >>
MeanEqual(a, b) ==
    << Cardinality({ rc \in (1..Len(a)) \X (1..Len(a[1])) :
                       a[rc[1]][rc[2]] = b[rc[1]][rc[2]] }),
       Len(a) * Len(a[1]) >>

\* cell "predict": the fitted pipeline is a function of the documents, so the
\* prediction inside clf.score is the one assigned to predicted
Predict ==
    /\ wf = "classification"
    /\ pc = "predict"
    /\ \E p \in Indicators(Len(X_test), Len(y_test[1])) :
          /\ predicted' = p
          /\ score' = AccuracyScore(y_test, p)
    /\ calls' = calls \o PipelinePredict(text_clf) \o PipelineScore(text_clf)
    /\ pc' = "agree"
    /\ UNCHANGED <<wf, run, csvfile, recs, i, rec_sub, data, text, labels, mlb,
                   labels_binary, boston, mt, train, test, X_train, X_test,
                   y_train, y_test, prev, label_names, clf, agreement, fits,
                   grid_scores_, best_parameters>>

\* cell "mean agreement"
MeanAgreement ==
    /\ wf = "classification"
    /\ pc = "agree"
    /\ agreement' = MeanEqual(predicted, y_test)
    /\ pc' = "report"
    /\ UNCHANGED <<wf, run, csvfile, recs, i, rec_sub, data, text, labels, mlb,
                   labels_binary, boston, mt, train, test, X_train, X_test,
                   y_train, y_test, prev, label_names, clf, predicted, score,
                   calls, fits, grid_scores_, best_parameters>>

\* what the cells up to the split have assigned
prepared == <<csvfile, recs, i, rec_sub, data, text, labels, mlb,
              labels_binary, boston, mt, train, test, X_train, X_test,
              y_train, y_test, prev, label_names>>

\* cell "for doc, label in zip(...)": prints, assigns nothing that is kept
ReportPredictions ==
    /\ wf = "classification"
    /\ pc = "report"
    /\ pc' = "metrics"
    /\ UNCHANGED <<wf, run, prepared, clf, predicted, score, agreement, calls,
                   fits, grid_scores_, best_parameters>>

\* cell "print metrics"
PrintMetrics ==
    /\ wf = "classification"
    /\ pc = "metrics"
    /\ pc' = "cv"
    /\ UNCHANGED <<wf, run, prepared, clf, predicted, score, agreement, calls,
                   fits, grid_scores_, best_parameters>>

----------------------------------------------------------------------------
(* classification.ipynb: 4) Cross Validation and Grid Search *)

\* cv=5 of cross_val_score
CvFolds == 5
\* the folds of GridSearchCV when cv is not passed
GridFolds == 3

\* cell "cross validation": the folds are cut from clones of text_clf and from
\* all of text; KFold raises ValueError for more folds than samples
CrossValidation ==
    /\ wf = "classification"
    /\ pc = "cv"
    /\ IF Len(text) < CvFolds
       THEN /\ pc' = "error"
            /\ UNCHANGED fits
       ELSE /\ fits' = Append(fits, Fitted("cross_val_score", text))
            /\ pc' = "grid"
    /\ UNCHANGED <<wf, run, prepared, clf, predicted, score, agreement, calls,
                   grid_scores_, best_parameters>>

\* parameters of the grid search cell
parameters ==
    [vect__ngram_range |-> << <<1, 1>>, <<1, 2>>, <<1, 3>> >>,
     tfidf__use_idf |-> <<TRUE, FALSE>>]

\* ParameterGrid(parameters): the keys sorted, the last key varying fastest
ParameterGrid(grid) ==
    LET n_idf == Len(grid.tfidf__use_idf)
        n_ngram == Len(grid.vect__ngram_range)
    IN  [k \in 1..(n_idf * n_ngram) |->
            [tfidf__use_idf |-> grid.tfidf__use_idf[((k - 1) \div n_ngram) + 1],
             vect__ngram_range |-> grid.vect__ngram_range[((k - 1) % n_ngram) + 1]]]

\* the mean held-out scores a search can report
MeanScores == { <<k, MaxScore>> : k \in 0..MaxScore }

\* a <= b for two ratios
RatioLeq(a, b) == a[1] * b[2] <= b[1] * a[2]

\* cell "grid search": GridSearchCV scores clones of text_clf for every
\* combination on folds of (X_train, y_train)
GridSearch ==
    /\ wf = "classification"
    /\ pc = "grid"
    /\ IF Len(TrainingData[1]) < GridFolds
       THEN /\ pc' = "error"
            /\ UNCHANGED <<fits, grid_scores_>>
       ELSE /\ fits' = Append(fits, Fitted("gs_clf", TrainingData[1]))
            /\ \E mean \in [1..Len(ParameterGrid(parameters)) -> MeanScores] :
                  grid_scores_' =
                      Some([k \in 1..Len(ParameterGrid(parameters)) |->
                              [parameters |-> ParameterGrid(parameters)[k],
                               mean_validation_score |-> mean[k]]])
            /\ pc' = "best"
    /\ UNCHANGED <<wf, run, prepared, clf, predicted, score, agreement, calls,
                   best_parameters>>

\* max(gs_clf.grid_scores_, key=lambda x: x[1]): the first entry no other
\* entry exceeds
MinByScore(scores) ==
    scores[CHOOSE k \in 1..Len(scores) :
        /\ \A j \in 1..Len(scores) :
              RatioLeq(scores[k].mean_validation_score, scores[j].mean_validation_score)
        /\ \A j \in 1..(k - 1) :
              ~ RatioLeq(scores[j].mean_validation_score, scores[k].mean_validation_score)]
MaxByScore(scores) ==
    scores[CHOOSE k \in 1..Len(scores) :
        /\ \A j \in 1..Len(scores) :
              RatioLeq(scores[j].mean_validation_score, scores[k].mean_validation_score)
        /\ \A j \in 1..(k - 1) :
              ~ RatioLeq(scores[k].mean_validation_score, scores[j].mean_validation_score)]

\* cell "best parameters": best_parameters, score, _ = max(...)
BestParameters ==
    /\ wf = "classification"
    /\ pc = "best"
    /\ LET best == MaxByScore(grid_scores_[1])
       IN  best_parameters' = Some([parameters |-> best.parameters,
                                    score |-> best.mean_validation_score])
    /\ pc' = "done"
    /\ UNCHANGED <<wf, run, prepared, clf, predicted, score, agreement, calls,
                   fits, grid_scores_>>

----------------------------------------------------------------------------
(* regression notebook: 1) Dataset and prep *)

\* the packaged dataset: observation k and its target, both named by k
BostonFiles ==
    { [k \in 1..n |-> [data |-> k, target |-> k]] : n \in 2..MaxSamples }

\* boston = load_boston()
LoadBoston ==
    /\ wf = "regression"
    /\ pc = "load"
    /\ boston' = Some([data |-> [k \in 1..Len(csvfile) |-> csvfile[k].data],
                       target |-> [k \in 1..Len(csvfile) |-> csvfile[k].target]])
    /\ pc' = "split"
    /\ UNCHANGED <<wf, run, csvfile, recs, i, rec_sub, data, text, labels, mlb,
                   labels_binary, mt, train, test, X_train, X_test, y_train,
                   y_test, prev, label_names, clf, predicted, score, agreement,
                   calls, fits, grid_scores_, best_parameters>>

\* cell train_test_split(boston.data, boston.target, ...)
SplitBoston ==
    /\ wf = "regression"
    /\ pc = "split"
    /\ SplitInto(boston[1].data, boston[1].target, RegressionSplit)
    /\ pc' = "build"
    /\ UNCHANGED <<wf, run, csvfile, recs, i, rec_sub, data, text, labels, mlb,
                   labels_binary, boston, prev, label_names, clf, predicted,
                   score, agreement,
                   calls, fits, grid_scores_, best_parameters>>

----------------------------------------------------------------------------
(* regression notebook: 2) Building models, 3) Cross Validation, AutoML *)

\* the estimators of the cells of section 2, each fitted in its cell
Estimators ==
    <<"lin_reg", "ridge_reg", "elastic_reg", "sv_reg", "knn_reg", "rf_reg",
      "ab_reg", "nn_reg">>

\* n_neighbors=5 of KNeighborsRegressor
KNeighbors == 5
\* cv=3 of cross_val_score
BostonFolds == 3

\* one cell of section 2: model = <estimator>.fit(X_train, y_train), then
\* model.score(X_test, y_test).  The cell that comes next is the one after
\* the fits made so far.  The neighbours regressor raises ValueError when it
\* is asked for more neighbours than it was fitted on.
FitModel ==
    /\ wf = "regression"
    /\ pc = "build"
    /\ LET estimator == Estimators[Len(fits) + 1]
       IN  /\ fits' = Append(fits, Fitted(estimator, TrainingData[1]))
           /\ pc' = IF estimator = "knn_reg" /\ Len(TrainingData[1]) < KNeighbors
                    THEN "error"
                    ELSE IF Len(fits) + 1 = Len(Estimators) THEN "cv"
                    ELSE "build"
    /\ UNCHANGED <<wf, run, prepared, clf, predicted, score, agreement, calls,
                   grid_scores_, best_parameters>>

\* cell cross_val_score(sv_reg, boston.data, boston.target, cv=3)
CrossValBoston ==
    /\ wf = "regression"
    /\ pc = "cv"
    /\ IF Len(boston[1].data) < BostonFolds
       THEN /\ pc' = "error"
            /\ UNCHANGED fits
       ELSE /\ fits' = Append(fits, Fitted("cross_val_score", boston[1].data))
            /\ pc' = "automl"
    /\ UNCHANGED <<wf, run, prepared, clf, predicted, score, agreement, calls,
                   grid_scores_, best_parameters>>

\* cell automl_r.fit(X_train, y_train)
AutoSklearn ==
    /\ wf = "regression"
    /\ pc = "automl"
    /\ fits' = Append(fits, Fitted("automl_r", TrainingData[1]))
    /\ pc' = "tpot"
    /\ UNCHANGED <<wf, run, prepared, clf, predicted, score, agreement, calls,
                   grid_scores_, best_parameters>>

\* cell tpot.fit(X_train, y_train)
TPOT ==
    /\ wf = "regression"
    /\ pc = "tpot"
    /\ fits' = Append(fits, Fitted("tpot", TrainingData[1]))
    /\ pc' = "done"
    /\ UNCHANGED <<wf, run, prepared, clf, predicted, score, agreement, calls,
                   grid_scores_, best_parameters>>

----------------------------------------------------------------------------
(* Executions *)

\* the cells after "mean agreement" and after the split of the boston data
AfterAgreement == {"report", "metrics", "cv", "grid", "best", "done"}
AfterBostonSplit == {"build", "cv", "automl", "tpot", "done"}

SplitDone ==
    pc \in IF wf = "classification"
           THEN {"names", "fit", "predict", "agree"} \cup AfterAgreement
           ELSE AfterBostonSplit

\* a fresh kernel at the top of the notebook
Fresh ==
    /\ recs = <<>> /\ i = 1 /\ rec_sub = <<>> /\ data = None
    /\ text = <<>> /\ labels = <<>> /\ mlb = None /\ labels_binary = <<>>
    /\ boston = None /\ train = <<>> /\ test = <<>>
    /\ X_train = <<>> /\ X_test = <<>> /\ y_train = <<>> /\ y_test = <<>>
    /\ label_names = <<>> /\ clf = None /\ predicted = <<>>
    /\ score = None /\ agreement = None
    /\ calls = <<>> /\ fits = <<>>
    /\ grid_scores_ = None /\ best_parameters = None

Init ==
    /\ wf \in {"classification", "regression"}
    /\ run = "first"
    /\ pc = IF wf = "classification" THEN "read" ELSE "load"
    /\ csvfile \in IF wf = "classification" THEN CsvFiles ELSE BostonFiles
    /\ mt = None
    /\ prev = None
    /\ Fresh

\* the notebook is run a second time on the same file in a new kernel: every
\* name is gone, the first execution's split is remembered for comparison
RunAgain ==
    /\ run = "first"
    /\ run' = "second"
    /\ pc' = IF wf = "classification" THEN "read" ELSE "load"
    /\ prev' = IF SplitDone
               THEN Some(<<X_train, X_test, y_train, y_test>>) ELSE None
    /\ recs' = <<>> /\ i' = 1 /\ rec_sub' = <<>> /\ data' = None
    /\ text' = <<>> /\ labels' = <<>> /\ mlb' = None /\ labels_binary' = <<>>
    /\ boston' = None /\ train' = <<>> /\ test' = <<>>
    /\ X_train' = <<>> /\ X_test' = <<>> /\ y_train' = <<>> /\ y_test' = <<>>
    /\ label_names' = <<>> /\ clf' = None /\ predicted' = <<>>
    /\ score' = None /\ agreement' = None
    /\ calls' = <<>> /\ fits' = <<>>
    /\ grid_scores_' = None /\ best_parameters' = None
    /\ UNCHANGED <<wf, csvfile, mt>>

\* Run All: the cells of a notebook from top to bottom, up to the first error
RunAll ==
    \/ ReadRow
    \/ EndRead
    \/ TurnLabelsIntoList
    \/ EndTurnLabelsIntoList
    \/ RemoveTextsWithNoLabel
    \/ TurnIntoDataFrame
    \/ ExtractTextAndLabels
    \/ BinarizeLabels
    \/ GetTrainingAndTestData
    \/ GetLabelNames
    \/ FitUsingPipeline
    \/ Predict
    \/ MeanAgreement
    \/ ReportPredictions
    \/ PrintMetrics
    \/ CrossValidation
    \/ LoadBoston
    \/ SplitBoston
    \/ FitModel

Next ==
    \/ RunAll
    \/ RunAgain

Spec == Init /\ [][Next]_vars

\* position j of the identity of 1..n turned by k places
Rotation(n, k) == [j \in 1..n |-> ((j + k - 1) % n) + 1]

\* The cells after the first fit need more data than the files above hold:
\* five documents for the five folds, five training observations for the five
\* neighbours.  The files of that size, every row with one label, and the
\* datasets of that size; the permutation of a split is a rotation.
LaterCsvFiles ==
    { [k \in 1..n |-> [Text |-> TextOf(k), Issue |-> <<"A", ",">> \o Other]] :
        n \in CvFolds..MaxDocs }

LaterBostonFiles ==
    { [k \in 1..n |-> [data |-> k, target |-> k]] :
        n \in { m \in 1..MaxBoston :
                  ValidateShuffleSplit(m, RegressionSplit.test_size,
                                       RegressionSplit.train_size).n_train
                      >= KNeighbors } }

\* the classification notebook at its top, the seeded permutation fixed
InitLaterClassification ==
    /\ wf = "classification"
    /\ pc = "read"
    /\ csvfile \in LaterCsvFiles
    /\ mt \in { Some(Rotation(Len(csvfile), k)) : k \in 0..(Len(csvfile) - 1) }
    /\ Fresh

\* the regression notebook after its split cell
InitLaterRegression ==
    /\ wf = "regression"
    /\ pc = "build"
    /\ csvfile \in LaterBostonFiles
    /\ mt = None
    /\ boston = Some([data |-> [k \in 1..Len(csvfile) |-> csvfile[k].data],
                      target |-> [k \in 1..Len(csvfile) |-> csvfile[k].target]])
    /\ \E k \in 0..(Len(csvfile) - 1) :
          LET s == train_test_split(boston[1].data, boston[1].target,
                                    RegressionSplit, Rotation(Len(csvfile), k))
          IN  /\ train = s.train /\ test = s.test
              /\ X_train = s.X_train /\ X_test = s.X_test
              /\ y_train = s.y_train /\ y_test = s.y_test
    /\ recs = <<>> /\ i = 1 /\ rec_sub = <<>> /\ data = None
    /\ text = <<>> /\ labels = <<>> /\ mlb = None /\ labels_binary = <<>>
    /\ label_names = <<>> /\ clf = None /\ predicted = <<>>
    /\ score = None /\ agreement = None
    /\ calls = <<>> /\ fits = <<>>
    /\ grid_scores_ = None /\ best_parameters = None

InitLater ==
    /\ run = "first"
    /\ prev = None
    /\ InitLaterClassification \/ InitLaterRegression

NextLater ==
    \/ ReadRow
    \/ EndRead
    \/ TurnLabelsIntoList
    \/ EndTurnLabelsIntoList
    \/ RemoveTextsWithNoLabel
    \/ TurnIntoDataFrame
    \/ ExtractTextAndLabels
    \/ BinarizeLabels
    \/ GetTrainingAndTestData
    \/ GetLabelNames
    \/ FitUsingPipeline
    \/ Predict
    \/ MeanAgreement
    \/ ReportPredictions
    \/ PrintMetrics
    \/ CrossValidation
    \/ GridSearch
    \/ BestParameters
    \/ FitModel
    \/ CrossValBoston
    \/ AutoSklearn
    \/ TPOT

SpecLater == InitLater /\ [][NextLater]_vars

\* the scoring cells on their own: a fitted pipeline and any held-out label
\* matrix in which, as after the filter, every sample holds a label
HeldOut ==
    UNION { { y \in Indicators(rows, width) :
                \A r \in 1..rows : \E c \in 1..width : y[r][c] = 1 } :
            rows \in 1..MaxRows, width \in 1..MaxWidth }

InitScore ==
    /\ wf = "classification"
    /\ run = "first"
    /\ pc = "predict"
    /\ csvfile = <<>>
    /\ mt = None
    /\ prev = None
    /\ recs = <<>> /\ i = 1 /\ rec_sub = <<>> /\ data = None
    /\ text = <<>> /\ labels = <<>> /\ mlb = None /\ labels_binary = <<>>
    /\ boston = None /\ train = <<>> /\ test = <<>>
    /\ X_train = <<>> /\ y_train = <<>>
    /\ y_test \in HeldOut
    /\ X_test = [k \in 1..Len(y_test) |-> TextOf(k)]
    /\ label_names = <<>> /\ clf = Some([X |-> X_train, y |-> y_train])
    /\ predicted = <<>>
    /\ score = None /\ agreement = None
    /\ calls = <<>> /\ fits = <<>>
    /\ grid_scores_ = None /\ best_parameters = None

NextScore ==
    \/ Predict
    \/ MeanAgreement

SpecScore == InitScore /\ [][NextScore]_vars

----------------------------------------------------------------------------
(* Properties *)

Reserved == {Other, General}

FilterDone ==
    /\ wf = "classification"
    /\ pc \in {"frame", "extract", "binarize", "split", "names", "fit",
               "predict", "agree", "error"} \cup AfterAgreement
    /\ i > Len(recs)

BinarizeDone ==
    /\ wf = "classification"
    /\ pc \in {"split", "names", "fit", "predict", "agree"} \cup AfterAgreement
    /\ mlb # None

NamesDone ==
    /\ BinarizeDone
    /\ pc \in {"fit", "predict", "agree"} \cup AfterAgreement

\* the comma-separated tokens of a field, by the positions of its commas
Commas(s) == { p \in 1..Len(s) : s[p] = "," }
CommaAt(s, j) ==
    IF j = 0 THEN 0
    ELSE IF j > Cardinality(Commas(s)) THEN Len(s) + 1
    ELSE CHOOSE p \in Commas(s) : Cardinality({ q \in Commas(s) : q <= p }) = j
Tokens(s) ==
    [j \in 1..(Cardinality(Commas(s)) + 1) |->
        SubSeq(s, CommaAt(s, j - 1) + 1, CommaAt(s, j) - 1)]

\* list L is the tokens of field s without the reserved ones, in their order
IsTokensWithoutReserved(L, s) ==
    LET toks == Tokens(s)
        kept == { j \in 1..Len(toks) : toks[j] \notin Reserved }
    IN  /\ Len(L) = Cardinality(kept)
        /\ \A j \in kept : L[Cardinality({ q \in kept : q <= j })] = toks[j]
        /\ \A j \in 1..Len(L) : L[j] \notin Reserved

\* the labels record r of the filtered set holds
Held(r) == Range(rec_sub[r].Issue.list)

\* C1: after the label-parsing step and the "remove texts with no label" step
\* no record of rec_sub has an empty label list
C1_NoEmptyLabelSet ==
    FilterDone => \A r \in 1..Len(rec_sub) : rec_sub[r].Issue.list # <<>>

\* the filter has run, has dropped a record and has kept one
C1_Witness ==
    /\ FilterDone
    /\ Len(rec_sub) >= 1
    /\ Len(rec_sub) < Len(recs)

\* a label field that is empty or holds only reserved tokens
NoUsableLabel(s) == s = <<>> \/ \A j \in 1..Len(Tokens(s)) : Tokens(s)[j] \in Reserved

\* C2: a record whose label field is empty or holds only 'Other' and 'General'
\* raises no error in the filtering steps, is not in the filtered set, and
\* every other record is in the filtered set
C2_NoUsableLabelExcluded ==
    FilterDone =>
        \A k \in 1..Len(csvfile) :
            LET retained == \E r \in 1..Len(rec_sub) : rec_sub[r].id = k
            IN  IF NoUsableLabel(csvfile[k].Issue) THEN ~ retained ELSE retained

\* C3: label parsing yields exactly the comma-separated tokens of the label
\* field without 'Other' and 'General': every parsed record, and so every
\* record of the filtered set, holds each non-reserved token of its field, in
\* order, and nothing else
C3_ParsedExactly ==
    /\ (wf = "classification" /\ pc = "parse") =>
          \A k \in 1..(i - 1) :
              IsTokensWithoutReserved(recs[k].Issue.list, csvfile[k].Issue)
    /\ FilterDone =>
          /\ \A k \in 1..Len(recs) :
                IsTokensWithoutReserved(recs[k].Issue.list, csvfile[k].Issue)
          /\ \A r \in 1..Len(rec_sub) :
                IsTokensWithoutReserved(rec_sub[r].Issue.list,
                                        csvfile[rec_sub[r].id].Issue)

\* a retained record whose field held a label and a reserved token
C3_Witness ==
    /\ FilterDone
    /\ \E r \in 1..Len(rec_sub) :
          /\ csvfile[rec_sub[r].id].Issue = <<"A", ",">> \o Other
          /\ rec_sub[r].Issue.list = << <<"A">> >>

\* C4: the vocabulary is the sorted sequence of the distinct labels of the
\* filtered records, and every record's indicator vector is as wide as the
\* vocabulary, 1 at exactly the positions of the labels it holds, 0 elsewhere
C4_Binarized ==
    BinarizeDone =>
        LET classes == mlb[1].classes_
        IN  /\ \A c \in 1..(Len(classes) - 1) : StrLess(classes[c], classes[c + 1])
            /\ Range(classes) = UNION { Held(r) : r \in 1..Len(rec_sub) }
            /\ Len(labels_binary) = Len(rec_sub)
            /\ \A r \in 1..Len(rec_sub) :
                  /\ Len(labels_binary[r]) = Len(classes)
                  /\ \A c \in 1..Len(classes) :
                        labels_binary[r][c] =
                            IF classes[c] \in Held(r) THEN 1 ELSE 0

\* label sets {A} and {B, A} over the vocabulary [A, B] give [1,0] and [1,1]
C4_Witness ==
    /\ BinarizeDone
    /\ mlb[1].classes_ = << <<"A">>, <<"B">> >>
    /\ labels = << << <<"A">> >>, << <<"B">>, <<"A">> >> >>
    /\ labels_binary = << <<1, 0>>, <<1, 1>> >>

\* np.array(label_names)[label==1]
Decode(label) == { label_names[c] : c \in { c \in 1..Len(label) : label[c] = 1 } }

\* C5: for every filtered record, the vocabulary names at the positions where
\* its indicator vector is 1 are exactly the labels the record holds
C5_Invertible ==
    NamesDone =>
        \A r \in 1..Len(rec_sub) : Decode(labels_binary[r]) = Held(r)

\* the names are there, the labels were first seen out of sorted order, and a
\* record holds fewer labels than the vocabulary has
C5_Witness ==
    /\ NamesDone
    /\ labels[1] = << <<"B">>, <<"A">> >>
    /\ \E r \in 1..Len(rec_sub) : Decode(labels_binary[r]) = { <<"A">> }

Reverse(s) == [k \in 1..Len(s) |-> s[Len(s) + 1 - k]]

\* C6: the vocabulary depends only on which labels occur and a record's vector
\* only on its own labels: binarizing the records listed in any other order,
\* each with its labels listed backwards, gives the same vocabulary and for
\* every record the same vector
C6_OrderIndependent ==
    BinarizeDone =>
        \A p \in Permutations(1..Len(labels)) :
            LET again == fit_transform([k \in 1..Len(labels) |-> Reverse(labels[p[k]])])
            IN  /\ again.classes_ = mlb[1].classes_
                /\ \A k \in 1..Len(labels) : again.yt[k] = labels_binary[p[k]]

\* two records with different label lists, one of them out of sorted order
C6_Witness ==
    /\ BinarizeDone
    /\ Len(labels) >= 2
    /\ labels[1] # labels[2]
    /\ \E r \in 1..Len(labels) : labels[r] = << <<"B">>, <<"A">> >>

\* C7: a split of at least two records is a partition: no record is in both
\* subsets, every record is in exactly one, and the returned arrays are the
\* records at those positions
C7_Partition ==
    (SplitDone /\ Len(SplitX) >= 2) =>
        /\ Range(train) \cap Range(test) = {}
        /\ Range(train) \cup Range(test) = 1..Len(SplitX)
        /\ Len(train) + Len(test) = Len(SplitX)
        /\ X_train = [k \in 1..Len(train) |-> SplitX[train[k]]]
        /\ X_test = [k \in 1..Len(test) |-> SplitX[test[k]]]
        /\ y_train = [k \in 1..Len(train) |-> SplitY[train[k]]]
        /\ y_test = [k \in 1..Len(test) |-> SplitY[test[k]]]

\* three filtered records split into two for training and one held out
C7_Witness ==
    /\ SplitDone
    /\ wf = "classification"
    /\ Len(text) = 3
    /\ Len(train) = 2
    /\ Len(test) = 1

\* C8 as stated: in either notebook the second execution on the same input
\* produces the training and evaluation subsets of the first
C8_EverySplitRepeats ==
    (run = "second" /\ SplitDone /\ prev # None) =>
        prev[1] = <<X_train, X_test, y_train, y_test>>

\* C8: the split of the classification notebook's texts, which passes
\* random_state=40, produces in the second execution the training and
\* evaluation subsets of the first
C8_SeededSplitRepeats ==
    (wf = "classification" /\ run = "second" /\ SplitDone /\ prev # None) =>
        prev[1] = <<X_train, X_test, y_train, y_test>>

\* a second execution has split three records as the first did, and not in
\* file order
C8_Witness ==
    /\ wf = "classification"
    /\ run = "second"
    /\ SplitDone
    /\ prev = Some(<<X_train, X_test, y_train, y_test>>)
    /\ Len(text) = 3
    /\ train = <<3, 1>>

\* the evaluation fraction C9 names for each notebook, and the training
\* fraction of the regression notebook
EvaluationFraction == IF wf = "classification" THEN <<1, 5>> ELSE <<1, 4>>

\* |a| < b
AbsLess(a, b) == a < b /\ 0 - a < b

\* C9: the evaluation subset's size differs from f * n by less than one, the
\* regression training subset's size from 0.75 * n by less than one, and the
\* two sizes add up to n
C9_SizesMatchFraction ==
    SplitDone =>
        LET n == Len(SplitX)
            f == EvaluationFraction
        IN  /\ AbsLess(Len(X_test) * f[2] - f[1] * n, f[2])
            /\ wf = "regression" => AbsLess(Len(X_train) * 4 - 3 * n, 4)
            /\ Len(X_train) + Len(X_test) = n
            /\ Len(y_train) = Len(X_train)
            /\ Len(y_test) = Len(X_test)

\* three observations, which no fraction divides evenly
C9_Witness ==
    /\ SplitDone
    /\ wf = "regression"
    /\ Len(boston[1].data) = 3
    /\ Len(X_test) = 1
    /\ Len(X_train) = 2

\* a ratio that is 1.0
IsOne(ratio) == ratio # None /\ ratio[2] > 0 /\ ratio[1] = ratio[2]

\* C10: when the predictions equal the held-out labels in every label of every
\* example, and there is an example, the pipeline score and the element-wise
\* mean agreement are 1.0
C10_PerfectAgreement ==
    (wf = "classification" /\ predicted = y_test /\ Len(y_test) >= 1) =>
        /\ pc \in {"agree"} \cup AfterAgreement => IsOne(score)
        /\ pc \in AfterAgreement => IsOne(agreement)

\* both scores are computed for two examples of two labels predicted exactly
C10_Witness ==
    /\ pc = "report"
    /\ Len(y_test) = 2
    /\ Len(y_test[1]) = 2
    /\ predicted = y_test

\* a ratio that is 0.0
IsZero(ratio) == ratio # None /\ ratio[2] > 0 /\ ratio[1] = 0

\* the predictions differ from the held-out labels in every label of every
\* example, and there is an example and a label
AllDisagree ==
    /\ Len(y_test) >= 1
    /\ Len(predicted) = Len(y_test)
    /\ \A r \in 1..Len(y_test) :
          /\ Len(y_test[r]) >= 1
          /\ \A c \in 1..Len(y_test[r]) : predicted[r][c] # y_test[r][c]

\* C11: when the predictions disagree with the held-out labels on every label
\* of every example, the pipeline score and the element-wise mean agreement
\* np.mean(predicted == y_test) are both 0.0
C11_TotalDisagreement ==
    (wf = "classification" /\ AllDisagree) =>
        /\ pc \in {"agree"} \cup AfterAgreement => IsZero(score)
        /\ pc \in AfterAgreement => IsZero(agreement)

\* both scores are computed for two examples of two labels, every label
\* predicted wrongly
C11_Witness ==
    /\ pc = "report"
    /\ Len(y_test) = 2
    /\ Len(y_test[1]) = 2
    /\ AllDisagree
    /\ IsZero(score)
    /\ IsZero(agreement)

\* the combinations of the grid: three n-gram ranges by two use_idf values
Combinations ==
    { [tfidf__use_idf |-> idf, vect__ngram_range |-> ngram] :
        idf \in {TRUE, FALSE}, ngram \in { <<1, 1>>, <<1, 2>>, <<1, 3>> } }

\* C12: the grid search scores every combination of the three n-gram ranges
\* and the two use_idf values once, and the assignment reported as best is one
\* of them whose mean score no other combination exceeds
C12_BestOfGrid ==
    /\ grid_scores_ # None =>
          /\ Len(grid_scores_[1]) = Cardinality(Combinations)
          /\ { grid_scores_[1][k].parameters : k \in 1..Len(grid_scores_[1]) }
                = Combinations
    /\ best_parameters # None =>
          /\ \E k \in 1..Len(grid_scores_[1]) :
                /\ grid_scores_[1][k].parameters = best_parameters[1].parameters
                /\ grid_scores_[1][k].mean_validation_score = best_parameters[1].score
          /\ \A k \in 1..Len(grid_scores_[1]) :
                RatioLeq(grid_scores_[1][k].mean_validation_score,
                         best_parameters[1].score)

\* a best assignment is reported where the first combination scored lower
\* than a later one
C12_Witness ==
    /\ pc = "done"
    /\ best_parameters # None
    /\ ~ RatioLeq(best_parameters[1].score,
                  grid_scores_[1][1].mean_validation_score)
    /\ best_parameters[1].parameters
          = [tfidf__use_idf |-> FALSE, vect__ngram_range |-> <<1, 2>>]

\* record k of the record list is the same dict, with the same value in
\* every field, after the step
SameRecord(k) == k <= Len(recs') /\ recs'[k] = recs[k]

\* C13 as stated: once the csv read has appended a record, no later step of
\* the workflow changes the value of any of its fields
C13_RecordImmutable ==
    [][run' = run => \A k \in 1..Len(recs) : SameRecord(k)]_vars

\* C13: after the csv read has appended a record, the only step that changes
\* it is the label parsing of that record, which replaces the string of its
\* Issue field by the list of the non-reserved tokens of that string and
\* leaves every other field alone; filtering, dataframe construction,
\* binarization and split change no field of any record
C13_OnlyParsingRewritesIssue ==
    [][run' = run =>
          \A k \in 1..Len(recs) :
              \/ SameRecord(k)
              \/ /\ pc = "parse"
                 /\ k = i
                 /\ k <= Len(recs')
                 /\ DOMAIN recs'[k] = DOMAIN recs[k]
                 /\ \A key \in DOMAIN recs[k] \ {"Issue"} :
                       recs'[k][key] = recs[k][key]
                 /\ DOMAIN recs[k].Issue = {"str"}
                 /\ DOMAIN recs'[k].Issue = {"list"}
                 /\ IsTokensWithoutReserved(recs'[k].Issue.list,
                                            recs[k].Issue.str)]_vars

\* the parsing has rewritten the label field of the first of two records,
\* dropped a reserved token from it, and the split has been made
C13_Witness ==
    /\ wf = "classification"
    /\ pc = "names"
    /\ Len(recs) = 2
    /\ csvfile[1].Issue = <<"A", ",">> \o Other
    /\ recs[1].Issue = [list |-> << <<"A">> >>]
    /\ recs[1].Text = csvfile[1].Text

\* the fit was given a record of the held-out evaluation subset
GivenHeldOut(fit) == Range(fit.X) \cap Range(X_test) # {}

\* C14 as stated: no fit of either workflow, cross-validation included, is
\* given a record of the held-out evaluation subset
C14_NoFitGivenHeldOut ==
    \A f \in 1..Len(fits) : ~ GivenHeldOut(fits[f])

\* C14: the pipeline fit, the estimator fits, the grid search and the AutoML
\* searches are given exactly the training subset, which holds no record of
\* the held-out evaluation subset, and the model kept for predict and score
\* is fitted on that subset; the cross-validation calls are given the whole
\* dataset, the held-out records included
C14_OnlyCrossValidationGivenHeldOut ==
    /\ \A f \in 1..Len(fits) :
          IF fits[f].by = "cross_val_score"
          THEN fits[f].X = SplitX
          ELSE /\ fits[f].X = X_train
               /\ ~ GivenHeldOut(fits[f])
    /\ clf # None => clf[1].X = X_train /\ clf[1].y = y_train

\* the classification notebook has run to its end: the pipeline, the
\* cross-validation and the grid search have fitted, and a record was held out
C14_Witness ==
    /\ wf = "classification"
    /\ pc = "done"
    /\ Len(X_test) >= 1
    /\ Len(fits) = 3
    /\ fits[1].by = "text_clf" /\ ~ GivenHeldOut(fits[1])
    /\ fits[2].by = "cross_val_score" /\ GivenHeldOut(fits[2])
    /\ fits[3].by = "gs_clf" /\ ~ GivenHeldOut(fits[3])

\* the csv file has no header line, or its header lacks Text or Issue
BadFile ==
    /\ wf = "classification"
    /\ \/ csvfile = <<>>
       \/ ~ ({"Text", "Issue"} \subseteq DOMAIN csvfile[1])

\* no binarization, split, fit or predict has run
NothingAfterIngestion ==
    /\ pc \in {"read", "parse", "filter", "frame", "extract", "error"}
    /\ mlb = None /\ labels_binary = <<>>
    /\ train = <<>> /\ test = <<>>
    /\ X_train = <<>> /\ X_test = <<>> /\ y_train = <<>> /\ y_test = <<>>
    /\ clf = None /\ predicted = <<>> /\ score = None
    /\ calls = <<>> /\ fits = <<>>

\* how far a run has come through the ingestion cells: the cell, then the
\* records read and parsed
IngestionCells == <<"read", "parse", "filter", "frame", "extract", "error">>
Progress ==
    IndexIn(IngestionCells, pc) * (2 * Len(csvfile) + 2) + Len(recs) + i

\* C15: on a csv file without a readable header or without the Text or the
\* Issue column, no binarization, split, fit or predict step ever runs; the
\* run can stop only in the error state, which every step of it comes
\* closer to; and from the error state the run takes no further step, so the
\* read is not retried
C15_IngestionErrorsFatal ==
    /\ [](BadFile => NothingAfterIngestion)
    /\ []((BadFile /\ ~ ENABLED RunAll) => pc = "error")
    /\ [][(BadFile /\ run' = run) =>
            /\ pc # "error"
            /\ Progress' > Progress]_vars

\* a file of two rows without the Issue column has failed in the label
\* parsing, before any record was rewritten
C15_Witness ==
    /\ BadFile
    /\ Len(csvfile) = 2
    /\ DOMAIN csvfile[1] = {"Text"}
    /\ pc = "error"
    /\ Len(recs) = 2
    /\ i = 1
    /\ NothingAfterIngestion

\* sequence s is the beginning of sequence t
IsPrefix(s, t) == Len(s) <= Len(t) /\ SubSeq(t, 1, Len(s)) = s

\* the stage calls of one fit, one predict and one score, in this order
FitThenPredictThenScore ==
    << [stage |-> "vect", method |-> "fit_transform"],
       [stage |-> "tfidf", method |-> "fit_transform"],
       [stage |-> "clf", method |-> "fit"],
       [stage |-> "vect", method |-> "transform"],
       [stage |-> "tfidf", method |-> "transform"],
       [stage |-> "clf", method |-> "predict"],
       [stage |-> "vect", method |-> "transform"],
       [stage |-> "tfidf", method |-> "transform"],
       [stage |-> "clf", method |-> "score"] >>

\* the fits made on the pipeline object itself
PipelineFits == { f \in 1..Len(fits) : fits[f].by = "text_clf" }

\* C16: in the classification workflow the stages are called in the order
\* vect, tfidf, clf, first to fit, then to predict, then to score; predict and
\* score have run only after the one fit of the pipeline on the training data;
\* and once fitted, the learned parameters are not changed by predict, score
\* or any later cell
C16_FitOnceThenPredict ==
    /\ [](wf = "classification" => IsPrefix(calls, FitThenPredictThenScore))
    /\ [](wf = "classification" /\ (predicted # <<>> \/ score # None) =>
             /\ clf = Some([X |-> X_train, y |-> y_train])
             /\ Cardinality(PipelineFits) = 1)
    /\ [](wf = "classification" => Cardinality(PipelineFits) <= 1)
    /\ [][(clf # None /\ run' = run) => clf' = clf]_vars

\* the classification notebook has run to its end, through cross-validation
\* and grid search, with the pipeline fitted, used to predict and scored
C16_Witness ==
    /\ wf = "classification"
    /\ pc = "done"
    /\ calls = FitThenPredictThenScore
    /\ clf # None
    /\ predicted # <<>>
    /\ score # None
    /\ Len(fits) = 3

\* the text and the binarized labels have been extracted from the frame
ExtractDone ==
    /\ wf = "classification"
    /\ pc \in {"binarize", "split", "names", "fit", "predict", "agree"}
              \cup AfterAgreement

\* x is the text of a row of the csv file, and y is the indicator vector, over
\* the vocabulary, of the labels of that row other than the reserved ones
IsPairOfOneRow(x, y) ==
    \E r \in 1..Len(csvfile) :
        /\ csvfile[r].Text = x
        /\ Len(y) = Len(mlb[1].classes_)
        /\ \A c \in 1..Len(y) :
              y[c] = IF mlb[1].classes_[c]
                         \in Range(Tokens(csvfile[r].Issue)) \ Reserved
                     THEN 1 ELSE 0

\* C17: the filtered records are in the order in which their rows were
\* loaded; text[k] and labels[k] are the text and the filtered labels of the
\* k-th filtered record; and after the split every X_train[k], y_train[k] and
\* every X_test[k], y_test[k] are the text of one row of the csv file and the
\* indicator vector of that row's filtered labels
C17_PairingPreserved ==
    /\ FilterDone =>
          \A r \in 1..(Len(rec_sub) - 1) : rec_sub[r].id < rec_sub[r + 1].id
    /\ ExtractDone =>
          /\ Len(text) = Len(rec_sub)
          /\ Len(labels) = Len(rec_sub)
          /\ \A k \in 1..Len(rec_sub) :
                /\ text[k] = csvfile[rec_sub[k].id].Text
                /\ IsTokensWithoutReserved(labels[k], csvfile[rec_sub[k].id].Issue)
    /\ (wf = "classification" /\ SplitDone) =>
          /\ Len(y_train) = Len(X_train)
          /\ Len(y_test) = Len(X_test)
          /\ \A k \in 1..Len(X_train) : IsPairOfOneRow(X_train[k], y_train[k])
          /\ \A k \in 1..Len(X_test) : IsPairOfOneRow(X_test[k], y_test[k])

\* of three rows the first has no usable label and is dropped; the second,
\* with the labels B and A, is held out, and the third, with A, is trained on
C17_Witness ==
    /\ wf = "classification"
    /\ pc = "names"
    /\ Len(csvfile) = 3
    /\ Len(rec_sub) = 2
    /\ rec_sub[1].id = 2
    /\ X_test = << TextOf(2) >>
    /\ y_test = << <<1, 1>> >>
    /\ X_train = << TextOf(3) >>
    /\ y_train = << <<1, 0>> >>

====
